---------------------------- MODULE Spec2Model ----------------------------
(***************************************************************************)
(* Model of vpn_config_server.py: the key pool and the subscription store  *)
(* (two JSON documents), the VLESS normalizer, the two admin operations    *)
(* and the public retrieval endpoint.                                      *)
(*                                                                         *)
(* A Python str is a sequence of one-character strings, so that prefix     *)
(* tests, regular-expression matching, percent-decoding and base64 are     *)
(* computed character by character as the code computes them.  The         *)
(* characters are printable ASCII: no line breaks (so "." matches every    *)
(* character and "$" only the end of the string) and no multi-byte UTF-8,  *)
(* and one lone surrogate, which a JSON request body can carry as the      *)
(* escape \ud800 and which no UTF-8 file can hold.                          *)
(***************************************************************************)
EXTENDS Integers, Sequences, FiniteSets, TLC

(***************************************************************************)
(* Bounds of the model.                                                    *)
(***************************************************************************)
\* parameters in a generated query string (normalizer specification)
MaxParams == 2

(***************************************************************************)
(* Characters and generic string helpers.                                  *)
(***************************************************************************)
\* chr(32) .. chr(126); chr(96), which no TLA+ string can hold, is "<bq>"
Ascii ==
    << " ", "!", "\"", "#", "$", "%", "&", "'", "(", ")", "*", "+", ",", "-", ".", "/",
       "0", "1", "2", "3", "4", "5", "6", "7", "8", "9", ":", ";", "<", "=", ">", "?",
       "@", "A", "B", "C", "D", "E", "F", "G", "H", "I", "J", "K", "L", "M", "N", "O",
       "P", "Q", "R", "S", "T", "U", "V", "W", "X", "Y", "Z", "[", "\\", "]", "^", "_",
       "<bq>", "a", "b", "c", "d", "e", "f", "g", "h", "i", "j", "k", "l", "m", "n", "o",
       "p", "q", "r", "s", "t", "u", "v", "w", "x", "y", "z", "{", "|", "}", "~" >>

Range(f) == { f[i] : i \in DOMAIN f }

\* ord(c) for a printable character
Ord == [ c \in Range(Ascii) |-> (CHOOSE i \in DOMAIN Ascii : Ascii[i] = c) + 31 ]

\* "\ud800" as json.loads returns it: a str of one code point that
\* str.encode("utf-8") refuses (UnicodeEncodeError)
Surrogate == "<U+D800>"

\* the text file opened with encoding="utf-8" accepts write(s)
Writable(s) == \A i \in DOMAIN s : s[i] # Surrogate

\* chr(n); a code outside the printable range is one opaque character
Chr(n) == IF n \in 32..126 THEN Ascii[n - 31] ELSE "<np>"

Digits == { "0", "1", "2", "3", "4", "5", "6", "7", "8", "9" }

Letters == { Ascii[i] : i \in 34..59 } \cup { Ascii[i] : i \in 66..91 }

\* the characters the pattern \w matches
WordChars == Letters \cup Digits \cup { "_" }

HexDigits == Digits \cup { "a", "b", "c", "d", "e", "f", "A", "B", "C", "D", "E", "F" }

\* int(c, 16)
HexVal(c) ==
    IF c \in Digits THEN Ord[c] - 48
    ELSE IF Ord[c] >= 97 THEN Ord[c] - 87 ELSE Ord[c] - 55

\* s.startswith(p)
StartsWith(s, p) == Len(s) >= Len(p) /\ SubSeq(s, 1, Len(p)) = p

\* s[i:] with i a 1-based position
From(s, i) == SubSeq(s, i, Len(s))

\* least position >= from of character c in s, 0 when there is none
IndexFrom(s, c, from) ==
    LET hits == { i \in from..Len(s) : s[i] = c }
    IN  IF hits = {} THEN 0 ELSE CHOOSE i \in hits : \A j \in hits : i <= j

\* s.split(c): the pieces between the occurrences of c
RECURSIVE SplitOn(_, _)
SplitOn(s, c) ==
    LET i == IndexFrom(s, c, 1)
    IN  IF i = 0 THEN << s >>
        ELSE << SubSeq(s, 1, i - 1) >> \o SplitOn(From(s, i + 1), c)

\* s.split(c, 1): at most one split
SplitOnce(s, c) ==
    LET i == IndexFrom(s, c, 1)
    IN  IF i = 0 THEN << s >> ELSE << SubSeq(s, 1, i - 1), From(s, i + 1) >>

\* sep.join(parts)
RECURSIVE Join(_, _)
Join(parts, sep) ==
    IF parts = << >> THEN << >>
    ELSE IF Len(parts) = 1 THEN parts[1]
    ELSE parts[1] \o sep \o Join(Tail(parts), sep)

\* s.replace("+", " ")
PlusToSpace(s) == [ i \in DOMAIN s |-> IF s[i] = "+" THEN " " ELSE s[i] ]

\* urllib.parse.unquote: "%" followed by two hex digits is the character with
\* that code, any other "%" stays
RECURSIVE unquote(_)
unquote(s) ==
    IF s = << >> THEN << >>
    ELSE IF s[1] = "%" /\ Len(s) >= 3 /\ s[2] \in HexDigits /\ s[3] \in HexDigits
         THEN << Chr(16 * HexVal(s[2]) + HexVal(s[3])) >> \o unquote(From(s, 4))
         ELSE << s[1] >> \o unquote(Tail(s))

(***************************************************************************)
(* The VLESS normalizer.                                                   *)
(***************************************************************************)
VLESS_PREFIX == << "v", "l", "e", "s", "s", ":", "/", "/" >>

AUTHORITY == << "a", "u", "t", "h", "o", "r", "i", "t", "y" >>

ENCRYPTION == << "e", "n", "c", "r", "y", "p", "t", "i", "o", "n" >>

NONE == << "n", "o", "n", "e" >>

NoMatch == [ matched |-> FALSE ]

\* least position >= from of a character of s that is no digit, 0 when
\* there is none
NonDigitFrom(s, from) ==
    LET hits == { i \in from..Len(s) : s[i] \notin Digits }
    IN  IF hits = {} THEN 0 ELSE CHOOSE i \in hits : \A j \in hits : i <= j

\* the groups (.+?)(?:#(.*))?$ of the text q after the "?": group 4 is
\* lazy, it ends before the first "#" past its first character when there
\* is one, and group 5 is what follows that "#"
MatchQuery(uuid, host, port, q, h) ==
    [ matched  |-> TRUE,
      uuid     |-> uuid,
      host     |-> host,
      port     |-> port,
      params   |-> IF h = 0 THEN q ELSE SubSeq(q, 1, h - 1),
      fragment |-> IF h = 0 THEN << >> ELSE From(q, h + 1) ]

\* r is the text after "vless://", at the place of its first "@", co the
\* place of the first ":" after it, qm the place of the first non-digit
\* after that (0 when there is no such place)
MatchGroups(r, at, co, qm) ==
    IF at < 2 \/ co < at + 2 \/ qm < co + 2 THEN NoMatch
    ELSE IF r[qm] # "?" \/ qm = Len(r) THEN NoMatch
    ELSE MatchQuery(SubSeq(r, 1, at - 1), SubSeq(r, at + 1, co - 1),
                    SubSeq(r, co + 1, qm - 1), From(r, qm + 1),
                    IndexFrom(From(r, qm + 1), "#", 2))

MatchPort(r, at, co) ==
    MatchGroups(r, at, co, IF co = 0 THEN 0 ELSE NonDigitFrom(r, co + 1))

MatchHost(r, at) ==
    MatchPort(r, at, IF at = 0 THEN 0 ELSE IndexFrom(r, ":", at + 1))

\* re.match(r"vless://([^@]+)@([^:]+):(\d+)\?(.+?)(?:#(.*))?$", s):
\* group 1 ends at the first "@", group 2 at the first ":" after it, group 3
\* is the digits up to a "?"
ReMatch(s) ==
    IF ~StartsWith(s, VLESS_PREFIX) THEN NoMatch
    ELSE MatchHost(From(s, Len(VLESS_PREFIX) + 1),
                   IndexFrom(From(s, Len(VLESS_PREFIX) + 1), "@", 1))

\* urllib.parse.parse_qsl(qs): the fields between "&", without the empty
\* ones, those lacking "=" and those with a blank value; names and values
\* have "+" turned to " " and are percent-decoded
RECURSIVE QslOf(_)
QslOf(fields) ==
    IF fields = << >> THEN << >>
    ELSE LET nv   == SplitOnce(fields[1], "=")
             rest == QslOf(Tail(fields))
         IN  IF Len(nv) # 2 \/ nv[2] = << >> THEN rest
             ELSE << << unquote(PlusToSpace(nv[1])), unquote(PlusToSpace(nv[2])) >> >> \o rest

parse_qsl(qs) == QslOf(SplitOn(qs, "&"))

\* The dict the loop over parse_qs(...).items() builds, as the sequence of
\* its (key, value) pairs in insertion order: each name once, at the place
\* of its first occurrence and with its first value, "authority" left out.
RECURSIVE NormalizedOf(_, _)
NormalizedOf(pairs, seen) ==
    IF pairs = << >> THEN << >>
    ELSE LET k == pairs[1][1]
         IN  IF k \in seen THEN NormalizedOf(Tail(pairs), seen)
             ELSE IF k = AUTHORITY THEN NormalizedOf(Tail(pairs), seen \cup { k })
             ELSE << pairs[1] >> \o NormalizedOf(Tail(pairs), seen \cup { k })

\* ... and "encryption" set to "none" when no such key is present
WithEncryption(normalized) ==
    IF \E i \in DOMAIN normalized : normalized[i][1] = ENCRYPTION THEN normalized
    ELSE Append(normalized, << ENCRYPTION, NONE >>)

\* "&".join(f"{k}={v}" if v else k ...)
NewParams(normalized) ==
    Join([ i \in DOMAIN normalized |->
             IF normalized[i][2] # << >>
             THEN normalized[i][1] \o << "=" >> \o normalized[i][2]
             ELSE normalized[i][1] ],
         << "&" >>)

\* re.sub(r"[^\w\-]", "", s)
FragClean(s) == SelectSeq(s, LAMBDA c : c \in WordChars \/ c = "-")

\* new_key, with "#" and the cleaned fragment when both are non-empty
WithFragment(new_key, fragment, frag_clean) ==
    IF fragment # << >> /\ frag_clean # << >>
    THEN new_key \o << "#" >> \o frag_clean
    ELSE new_key

\* the key rebuilt from the groups of the match
Rebuild(vless_key, m) ==
    IF ~m.matched THEN vless_key
    ELSE WithFragment(
           VLESS_PREFIX \o m.uuid \o << "@" >> \o m.host \o << ":" >> \o m.port \o << "?" >>
             \o NewParams(WithEncryption(NormalizedOf(parse_qsl(m.params), {}))),
           m.fragment,
           FragClean(unquote(m.fragment)))

normalize_vless_for_v2raytun(vless_key) ==
    IF ~StartsWith(vless_key, VLESS_PREFIX) THEN vless_key
    ELSE Rebuild(vless_key, ReMatch(vless_key))

(***************************************************************************)
(* The two documents and the process configuration.                        *)
(***************************************************************************)
\* keysDoc and subsDoc are the two files as _load_json reads them: the
\* document the file holds, and the default when the file does not exist or
\* is no JSON text (json.load raises, the error is logged, the default is
\* returned).
VARIABLES
    AUTH_TOKEN,   \* the configured secret, read once from the environment
    keysDoc,      \* KEYS_FILE: the lists trial, month, year and used
    subsDoc,      \* SUBS_FILE: str(user_id) -> subscription record
    last          \* the request handled last and the response it got

\* Every list of KEYS_FILE is written as sorted(set(...)) and shrinks only by
\* list.remove, so it never holds a key twice and its order is a function of
\* its members: a list is modelled as the set of its members.
\* The default {} reads as four empty lists (data.get(t, [])).
EmptyStore == [ trial |-> {}, month |-> {}, year |-> {}, used |-> {} ]

\* _load_json(SUBS_FILE, {}) when the file does not exist
EmptySubs == [ u \in {} |-> {} ]

TRIAL == << "t", "r", "i", "a", "l" >>

MONTH == << "m", "o", "n", "t", "h" >>

YEAR == << "y", "e", "a", "r" >>

\* the tuple ("trial", "month", "year") of admin_assign
PlanTypes == { TRIAL, MONTH, YEAR }

\* the three available tiers, as the keys of the key pool document
Tiers == { "trial", "month", "year" }

load_keys_store(doc) ==
    [ trial |-> doc.trial, month |-> doc.month, year |-> doc.year, used |-> doc.used ]

load_subscriptions(doc) == doc

\* json.dump(store, f) gets through every key of the four lists
StoreWritable(store) ==
    \A t \in Tiers \cup { "used" } : \A k \in store[t] : Writable(k)

\* json.dump(subs, f) gets through every record (user id, type and key; the
\* end_date values of the model are all text a file can hold)
SubsWritable(subs) ==
    \A u \in DOMAIN subs : Writable(u) /\ Writable(subs[u].type) /\ Writable(subs[u].key)

\* _save_json(KEYS_FILE, store): open(path, "w") empties the file and
\* json.dump writes the document piece by piece.  A string the file cannot
\* encode stops it with UnicodeEncodeError, which is logged and swallowed:
\* the file is left holding the unfinished text, which _load_json answers
\* with the default.
save_keys_store(store) == IF StoreWritable(store) THEN store ELSE EmptyStore

\* _save_json(SUBS_FILE, subs), likewise
save_subscriptions(subs) == IF SubsWritable(subs) THEN subs ELSE EmptySubs

\* _require_auth without its "not AUTH_TOKEN" test
RequireAuthEmptySecretPasses(token) == token = AUTH_TOKEN

\* _require_auth passes (does not abort with 401)
require_auth(token) == ~(AUTH_TOKEN = "" \/ token # AUTH_TOKEN)

\* digits of a positive integer, most significant first
RECURSIVE DecimalOf(_)
DecimalOf(n) ==
    IF n < 10 THEN << Chr(48 + n) >> ELSE DecimalOf(n \div 10) \o << Chr(48 + (n % 10)) >>

\* str(user_id) for an integer user_id
Str(n) == IF n < 0 THEN << "-" >> \o DecimalOf(-n) ELSE DecimalOf(n)

(***************************************************************************)
(* POST /admin/keys/upload                                                 *)
(***************************************************************************)
\* "if nk not in bucket and nk not in used: bucket.add(nk); changed[t] += 1"
Admit(acc, used, nk) ==
    IF nk \notin acc.bucket /\ nk \notin used
    THEN [ bucket |-> acc.bucket \cup { nk }, changed |-> acc.changed + 1 ]
    ELSE acc

\* one turn of the loop over incoming[t]
AddKey(acc, used, k) ==
    IF ~StartsWith(k, VLESS_PREFIX) THEN acc
    ELSE Admit(acc, used, normalize_vless_for_v2raytun(k))

\* the loop over incoming[t]: the bucket and the count of the keys added
RECURSIVE AddKeys(_, _, _)
AddKeys(acc, used, ks) ==
    IF ks = << >> THEN acc
    ELSE AddKeys(AddKey(acc, used, ks[1]), used, Tail(ks))

\* the loop with "bucket = set()" for "bucket = set(store.get(t, []))"
UploadTiersFromEmpty(store, incoming) ==
    [ t \in Tiers |-> AddKeys([ bucket |-> {}, changed |-> 0 ], store.used, incoming[t]) ]

\* the loop over the three tiers
UploadTiers(store, incoming) ==
    [ t \in Tiers |-> AddKeys([ bucket |-> store[t], changed |-> 0 ], store.used, incoming[t]) ]

\* the store admin_keys_upload saves
UploadStore(store, tiers) ==
    [ trial |-> tiers["trial"].bucket,
      month |-> tiers["month"].bucket,
      year  |-> tiers["year"].bucket,
      used  |-> store.used ]

\* the "added" object of the response
UploadChanged(tiers) ==
    [ trial |-> tiers["trial"].changed,
      month |-> tiers["month"].changed,
      year  |-> tiers["year"].changed ]

\* the "total" object of the response
UploadTotal(store) ==
    [ trial |-> Cardinality(store.trial),
      month |-> Cardinality(store.month),
      year  |-> Cardinality(store.year) ]

Unauthorized(op, token) == [ op |-> op, hdr |-> token, status |-> 401 ]

UploadResponse(token, incoming, store, tiers) ==
    [ op |-> "upload", hdr |-> token, status |-> 200, incoming |-> incoming,
      added |-> UploadChanged(tiers), total |-> UploadTotal(UploadStore(store, tiers)) ]

\* the handler past _require_auth, on the store it loaded
UploadLoaded(token, incoming, store, tiers) ==
    /\ keysDoc' = save_keys_store(UploadStore(store, tiers))
    /\ last' = UploadResponse(token, incoming, store, tiers)

admin_keys_upload(token, incoming) ==
    IF ~require_auth(token)
    THEN /\ last' = Unauthorized("upload", token)
         /\ UNCHANGED << AUTH_TOKEN, keysDoc, subsDoc >>
    ELSE /\ UploadLoaded(token, incoming, load_keys_store(keysDoc),
                         UploadTiers(load_keys_store(keysDoc), incoming))
         /\ UNCHANGED << AUTH_TOKEN, subsDoc >>

(***************************************************************************)
(* POST /admin/assign                                                      *)
(***************************************************************************)
\* subs[str(user_id)] = {...}: the record of user_id is created or replaced
AssignSubs(subs, user_id, sub_type, key, end_date) ==
    LET uid == Str(user_id)
        rec == [ type |-> sub_type, key |-> key, end_date |-> end_date, active |-> TRUE ]
    IN  [ u \in (DOMAIN subs) \cup { uid } |-> IF u = uid THEN rec ELSE subs[u] ]

\* the key leaves every available tier and joins used
AssignStore(store, key) ==
    [ trial |-> store.trial \ { key },
      month |-> store.month \ { key },
      year  |-> store.year \ { key },
      used  |-> store.used \cup { key } ]

AssignResponse(token, status, user_id, sub_type, raw_key, end_date) ==
    [ op |-> "assign", hdr |-> token, status |-> status, user_id |-> user_id,
      type |-> sub_type, raw_key |-> raw_key, end_date |-> end_date ]

\* "if not user_id or sub_type not in (...) or not key"
AssignInvalid(user_id, sub_type, raw_key) ==
    user_id = 0 \/ sub_type \notin PlanTypes \/ raw_key = << >>

admin_assign(token, user_id, sub_type, raw_key, end_date) ==
    IF ~require_auth(token)
    THEN /\ last' = Unauthorized("assign", token)
         /\ UNCHANGED << AUTH_TOKEN, keysDoc, subsDoc >>
    ELSE IF AssignInvalid(user_id, sub_type, raw_key)
    THEN /\ last' = AssignResponse(token, 400, user_id, sub_type, raw_key, end_date)
         /\ UNCHANGED << AUTH_TOKEN, keysDoc, subsDoc >>
    ELSE /\ subsDoc' = save_subscriptions(
                          AssignSubs(load_subscriptions(subsDoc), user_id, sub_type,
                                     normalize_vless_for_v2raytun(raw_key), end_date))
         /\ keysDoc' = save_keys_store(
                          AssignStore(load_keys_store(keysDoc),
                                      normalize_vless_for_v2raytun(raw_key)))
         /\ last' = AssignResponse(token, 200, user_id, sub_type, raw_key, end_date)
         /\ UNCHANGED AUTH_TOKEN

(***************************************************************************)
(* base64 and the retrieval token.                                         *)
(***************************************************************************)
B64Alphabet ==
    << "A", "B", "C", "D", "E", "F", "G", "H", "I", "J", "K", "L", "M", "N", "O", "P",
       "Q", "R", "S", "T", "U", "V", "W", "X", "Y", "Z", "a", "b", "c", "d", "e", "f",
       "g", "h", "i", "j", "k", "l", "m", "n", "o", "p", "q", "r", "s", "t", "u", "v",
       "w", "x", "y", "z", "0", "1", "2", "3", "4", "5", "6", "7", "8", "9", "+", "/" >>

\* the 6-bit value of a base64 digit
B64Val == [ c \in Range(B64Alphabet) |-> (CHOOSE i \in DOMAIN B64Alphabet : B64Alphabet[i] = c) - 1 ]

\* binascii.a2b_base64 as base64.b64decode(token) calls it (validate=False):
\* characters outside the alphabet are skipped, "=" ends the data once it
\* completes a quad of which two digits or more are data, and data that ends
\* inside a quad is an error (binascii.Error).
RECURSIVE A2B(_, _, _, _, _)
A2B(s, quad_pos, leftchar, pads, out) ==
    IF s = << >>
    THEN [ ok |-> quad_pos = 0, bytes |-> out ]
    ELSE LET c == s[1]
         IN  IF c = "="
             THEN IF quad_pos >= 2 /\ quad_pos + pads + 1 >= 4
                  THEN [ ok |-> TRUE, bytes |-> out ]
                  ELSE A2B(Tail(s), quad_pos, leftchar,
                           IF quad_pos >= 2 THEN pads + 1 ELSE pads, out)
             ELSE IF c \notin Range(B64Alphabet)
             THEN A2B(Tail(s), quad_pos, leftchar, pads, out)
             ELSE LET v == B64Val[c]
                  IN  CASE quad_pos = 0 -> A2B(Tail(s), 1, v, 0, out)
                        [] quad_pos = 1 ->
                             A2B(Tail(s), 2, v % 16, 0, Append(out, leftchar * 4 + (v \div 16)))
                        [] quad_pos = 2 ->
                             A2B(Tail(s), 3, v % 4, 0, Append(out, leftchar * 16 + (v \div 4)))
                        [] OTHER ->
                             A2B(Tail(s), 0, 0, 0, Append(out, leftchar * 64 + v))

b64decode(token) == A2B(token, 0, 0, 0, << >>)

\* bytes.decode("utf-8") of bytes that are ASCII or can be part of no UTF-8
\* sequence: any byte above 127 is a UnicodeDecodeError
Utf8Decode(bytes) ==
    [ ok   |-> \A i \in DOMAIN bytes : bytes[i] < 128,
      text |-> [ i \in DOMAIN bytes |-> Chr(bytes[i]) ] ]

\* base64.b64encode of a sequence of bytes
RECURSIVE B2A(_)
B2A(bytes) ==
    IF bytes = << >> THEN << >>
    ELSE IF Len(bytes) = 1
    THEN << B64Alphabet[(bytes[1] \div 4) + 1], B64Alphabet[(bytes[1] % 4) * 16 + 1], "=", "=" >>
    ELSE IF Len(bytes) = 2
    THEN << B64Alphabet[(bytes[1] \div 4) + 1],
            B64Alphabet[(bytes[1] % 4) * 16 + (bytes[2] \div 16) + 1],
            B64Alphabet[(bytes[2] % 16) * 4 + 1], "=" >>
    ELSE << B64Alphabet[(bytes[1] \div 4) + 1],
            B64Alphabet[(bytes[1] % 4) * 16 + (bytes[2] \div 16) + 1],
            B64Alphabet[(bytes[2] % 16) * 4 + (bytes[3] \div 64) + 1],
            B64Alphabet[(bytes[3] % 64) + 1] >> \o B2A(From(bytes, 4))

\* token = base64("{user_id}_{type}")
TokenOf(user_id, sub_type) ==
    LET text == Str(user_id) \o << "_" >> \o sub_type
    IN  B2A([ i \in DOMAIN text |-> Ord[text[i]] ])

(***************************************************************************)
(* end_date and the clock.  Time is counted in whole hours.  An end_date   *)
(* string is the wall-clock reading it spells and its UTC offset suffix:   *)
(* none ("naive"), "Z", or "+hh:00" ("offset", off hours); a string that   *)
(* is no ISO-8601 timestamp is "invalid"; the empty string is "empty".     *)
(***************************************************************************)
EndDate(kind, wall, off) == [ kind |-> kind, wall |-> wall, off |-> off ]

NoEndDate == EndDate("empty", 0, 0)

\* end_iso.replace("Z", "+00:00")
ReplaceZ(end_iso) ==
    IF end_iso.kind = "Z" THEN EndDate("offset", end_iso.wall, 0) ELSE end_iso

\* datetime.fromisoformat: the wall-clock fields and the tzinfo (an offset,
\* or none for a naive value); ValueError on anything else
fromisoformat(text) ==
    IF text.kind \in { "naive", "offset" }
    THEN [ ok |-> TRUE, wall |-> text.wall, aware |-> text.kind = "offset", utcoffset |-> text.off ]
    ELSE [ ok |-> FALSE, wall |-> 0, aware |-> FALSE, utcoffset |-> 0 ]

\* dt.replace(tzinfo=timezone.utc): the wall-clock fields are kept as they
\* are and the tzinfo is overwritten
ReplaceTzinfoUtc(dt) == [ dt EXCEPT !.aware = TRUE, !.utcoffset = 0 ]

\* the instant (hours, UTC) an aware datetime denotes
InstantOf(dt) == dt.wall - dt.utcoffset

\* the "if end_iso:" block of get_subscription: TRUE when it answers
\* "Subscription expired"
Expired(end_iso, now) ==
    IF end_iso.kind = "empty" THEN FALSE
    ELSE LET end_dt == fromisoformat(ReplaceZ(end_iso))
         IN  IF ~end_dt.ok THEN FALSE
             ELSE now > InstantOf(ReplaceTzinfoUtc(end_dt))

(***************************************************************************)
(* GET /sub/<token>                                                        *)
(***************************************************************************)
Reply(token, now, status, reason, body) ==
    [ op |-> "get", token |-> token, now |-> now, status |-> status,
      reason |-> reason, body |-> body ]

\* the response of get_subscription as a function of its inputs
SubscriptionResponse(subs, token, now) ==
    LET raw     == b64decode(token)
        decoded == Utf8Decode(raw.bytes)
    IN  IF ~raw.ok \/ ~decoded.ok
        THEN Reply(token, now, 500, "Internal server error", << >>)
        ELSE
        LET parts == SplitOnce(decoded.text, "_")
        IN  IF Len(parts) # 2 THEN Reply(token, now, 400, "Bad token", << >>)
            ELSE
            LET user_id_str == parts[1]
                sub_type    == parts[2]
            IN  IF user_id_str \notin DOMAIN subs \/ ~subs[user_id_str].active
                THEN Reply(token, now, 403, "Subscription inactive", << >>)
                ELSE
                LET sub == subs[user_id_str]
                IN  IF sub.type # sub_type
                    THEN Reply(token, now, 400, "Wrong subscription type", << >>)
                    ELSE IF Expired(sub.end_date, now)
                    THEN Reply(token, now, 403, "Subscription expired", << >>)
                    ELSE IF ~StartsWith(sub.key, VLESS_PREFIX)
                    THEN Reply(token, now, 404, "Key not found", << >>)
                    ELSE Reply(token, now, 200, "", normalize_vless_for_v2raytun(sub.key))

get_subscription(token, now) ==
    /\ last' = SubscriptionResponse(load_subscriptions(subsDoc), token, now)
    /\ UNCHANGED << AUTH_TOKEN, keysDoc, subsDoc >>

(***************************************************************************)
(* Inputs of the normalizer specification: well-formed VLESS strings       *)
(* vless://credential@host:port?query[#fragment].                          *)
(***************************************************************************)
\* one query parameter each: plain, empty value, authority, encryption,
\* percent-encoded values ("%41" is "A", "%26" is "&")
QueryParams ==
    { << "a", "=", "1" >>,
      << "b", "=" >>,
      AUTHORITY \o << "=", "h" >>,
      ENCRYPTION \o << "=" >> \o NONE,
      << "c", "=", "%", "4", "1" >>,
      << "a", "=", "%", "2", "6", "b", "=", "1" >> }

\* absent, plain, percent-encoded
Fragments ==
    { << >>,
      << "#", "n", "-", "1" >>,
      << "#", "%", "2", "3", "n", "%", "2", "0", "x" >> }

RECURSIVE Queries(_)
Queries(n) ==
    IF n = 1 THEN QueryParams
    ELSE Queries(n - 1)
           \cup { q \o << "&" >> \o p : q \in Queries(n - 1), p \in QueryParams }

Authority == << "u", "@", "h", ":", "4", "4", "3", "?" >>

WellFormed == { VLESS_PREFIX \o Authority \o q \o f : q \in Queries(MaxParams), f \in Fragments }

(***************************************************************************)
(* Requests.                                                               *)
(***************************************************************************)
\* user ids 1 .. NumUsers take part in the admin workflow
NumUsers == 2

\* keys in the lists of one upload request, all tiers together
MaxUpload == 1

\* the clock readings of a retrieval are 0 .. MaxTime
MaxTime == 3

Secret == "s3cr3t"

\* X-Auth-Token: absent (the default ""), right, wrong
Headers == { "", Secret, "guess" }

\* vless://u@h:443?a=1
KeyPlain == VLESS_PREFIX \o Authority \o << "a", "=", "1" >>

\* vless://u@h:443?a=%26b=1
KeyEncoded == VLESS_PREFIX \o Authority \o << "a", "=", "%", "2", "6", "b", "=", "1" >>

\* http://x
KeyForeign == << "h", "t", "t", "p", ":", "/", "/", "x" >>

\* "vless://\ud800"
KeySurrogate == VLESS_PREFIX \o << Surrogate >>

RawKeys == { KeyPlain, KeyEncoded, KeyForeign, KeySurrogate }

\* the lists of at most n keys of a set
RECURSIVE KeyLists(_, _)
KeyLists(keys, n) ==
    IF n = 0 THEN { << >> }
    ELSE KeyLists(keys, n - 1) \cup { Append(l, k) : l \in KeyLists(keys, n - 1), k \in keys }

\* the upload bodies with at most MaxUpload keys of a set, the three lists
\* together
Payloads(keys) ==
    { p \in [ trial : KeyLists(keys, MaxUpload), month : KeyLists(keys, MaxUpload),
              year : KeyLists(keys, MaxUpload) ] :
        Len(p.trial) + Len(p.month) + Len(p.year) <= MaxUpload }

UploadPayloads == Payloads({ KeyPlain, KeyForeign, KeySurrogate })

WEEK == << "w", "e", "e", "k" >>

AssignRequest(user_id, sub_type, key, end_date) ==
    [ user_id |-> user_id, type |-> sub_type, key |-> key, end_date |-> end_date ]

\* requests admin_assign answers with 400: user_id missing (falsy), a type
\* that is no tier, an empty key
BadAssignRequests ==
    { AssignRequest(0, TRIAL, KeyPlain, NoEndDate),
      AssignRequest(1, WEEK, KeyPlain, NoEndDate),
      AssignRequest(1, TRIAL, << >>, NoEndDate) }

AssignRequests(users, keys, end_dates) ==
    { AssignRequest(u, t, k, e) : u \in users, t \in PlanTypes, k \in keys, e \in end_dates }
      \cup BadAssignRequests

\* empty; not a timestamp; 01:00; 01:00Z; 03:00+02:00 (which is 01:00Z)
EndDates ==
    { NoEndDate, EndDate("invalid", 0, 0), EndDate("naive", 1, 0), EndDate("Z", 1, 0),
      EndDate("offset", 3, 2) }

\* tokens that are no base64("{user_id}_{type}"): "abc" (data ends inside a
\* quad), the byte 0xFF (no UTF-8), "1trial", "1_trial_x"
MalformedTokens ==
    { << "a", "b", "c" >>,
      B2A(<< 255 >>),
      B2A([ i \in 1..6 |-> Ord[(<< "1" >> \o TRIAL)[i]] ]),
      B2A([ i \in 1..9 |-> Ord[(<< "1", "_" >> \o TRIAL \o << "_", "x" >>)[i]] ]) }

Tokens(users) == { TokenOf(u, t) : u \in users, t \in PlanTypes }

NoRequest == [ op |-> "none", status |-> 0 ]

\* A request that fails _require_auth is answered before its body is read:
\* one body stands for all the bodies it could carry.
BodiesFor(token, bodies) ==
    IF require_auth(token) THEN bodies ELSE { CHOOSE b \in bodies : TRUE }

(***************************************************************************)
(* The upload service (v2raytun_compatible_server.py): .sub files in        *)
(* SUB_FILES_DIR, written by POST /upload and read by GET /sub/<sub_id>     *)
(* and GET /sub/<sub_id>/raw.                                              *)
(***************************************************************************)
VARIABLES
    sub_files,    \* SUB_FILES_DIR: sub_id -> the text of the file <sub_id>.sub
    issued,       \* the uploads answered with success: [sub_id, config, profile_name]
    answer        \* the request this service handled last and its response

service == << sub_files, issued, answer >>

\* sub ids uuid.uuid4() can yield: its value is random, any of them may come
\* up at any upload
NumSubIds == 2

\* uploads answered with success in one run
MaxUploads == 3

NoFiles == [ i \in {} |-> << >> ]

\* str.encode("utf-8"): UnicodeEncodeError on a lone surrogate
Utf8Encode(text) ==
    [ ok    |-> Writable(text),
      bytes |-> IF Writable(text) THEN [ i \in DOMAIN text |-> Ord[text[i]] ] ELSE << >> ]

\* base64.b64encode(text.encode("utf-8")).decode("utf-8"), or the exception
B64OfText(text) ==
    IF Utf8Encode(text).ok
    THEN [ ok |-> TRUE, text |-> B2A(Utf8Encode(text).bytes) ]
    ELSE [ ok |-> FALSE, text |-> << >> ]

\* "if '#' not in vless_config: f'{vless_config}#{profile_name}'"
WithName(vless_config, profile_name) ==
    IF \E i \in DOMAIN vless_config : vless_config[i] = "#"
    THEN vless_config
    ELSE vless_config \o << "#" >> \o profile_name

\* the except branch: the config alone, its exception reaching the caller
ContentFallback(vless_config) == B64OfText(vless_config)

create_subscription_content(vless_config, profile_name) ==
    IF B64OfText(WithName(vless_config, profile_name)).ok
    THEN B64OfText(WithName(vless_config, profile_name))
    ELSE ContentFallback(vless_config)

\* the default of data.get('profile_name', 'VPN')
VPN == << "V", "P", "N" >>

\* the JSON body of POST /upload: absent or empty (json false), or an object
\* with a config (empty when absent) and, when named, a profile_name
UploadBody(json, config, named, profile_name) ==
    [ json |-> json, config |-> config, named |-> named, profile_name |-> profile_name ]

ProfileNameOf(data) == IF data.named THEN data.profile_name ELSE VPN

\* str(uuid.uuid4())[:12]: eight digits, "-", three digits
SubId(n) == [ i \in 1..12 |-> IF i = 9 THEN "-" ELSE Chr(48 + n) ]

SubIds == { SubId(n) : n \in 1..NumSubIds }

UploadAnswer(data, status, sub_id) ==
    [ op |-> "upload", status |-> status, sub_id |-> sub_id, data |-> data, body |-> << >> ]

\* open(sub_filepath, 'w').write(sub_content): the file created or replaced
WriteSub(files, sub_id, sub_content) ==
    [ i \in (DOMAIN files) \cup { sub_id } |-> IF i = sub_id THEN sub_content ELSE files[i] ]

\* upload_config past its three tests, with the content it has built
UploadStored(data, sub_id, content) ==
    IF ~content.ok
    THEN /\ answer' = UploadAnswer(data, 500, << >>)
         /\ UNCHANGED << sub_files, issued >>
    ELSE /\ sub_files' = WriteSub(sub_files, sub_id, content.text)
         /\ issued' = issued \cup { [ sub_id |-> sub_id, config |-> data.config,
                                      profile_name |-> ProfileNameOf(data) ] }
         /\ answer' = UploadAnswer(data, 200, sub_id)

\* POST /upload; sub_id is the value uuid.uuid4() yields in this request
upload_config(data, sub_id) ==
    IF ~data.json \/ data.config = << >> \/ ~StartsWith(data.config, VLESS_PREFIX)
    THEN /\ answer' = UploadAnswer(data, 400, << >>)
         /\ UNCHANGED << sub_files, issued >>
    ELSE UploadStored(data, sub_id,
                      create_subscription_content(data.config, ProfileNameOf(data)))

SubAnswer(op, sub_id, status, body) ==
    [ op |-> op, status |-> status, sub_id |-> sub_id, body |-> body ]

\* GET /sub/<sub_id> of the upload service
v2raytun_get_subscription(sub_id) ==
    /\ answer' = IF sub_id \notin DOMAIN sub_files
                 THEN SubAnswer("sub", sub_id, 404, << >>)
                 ELSE SubAnswer("sub", sub_id, 200, sub_files[sub_id])
    /\ UNCHANGED << sub_files, issued >>

\* "try: base64.b64decode(encoded_content).decode('utf-8')
\*  except: decoded_content = encoded_content"
DecodedContent(encoded_content, raw) ==
    IF raw.ok /\ Utf8Decode(raw.bytes).ok THEN Utf8Decode(raw.bytes).text ELSE encoded_content

\* GET /sub/<sub_id>/raw
get_subscription_raw(sub_id) ==
    /\ answer' = IF sub_id \notin DOMAIN sub_files
                 THEN SubAnswer("raw", sub_id, 404, << >>)
                 ELSE SubAnswer("raw", sub_id, 200,
                                DecodedContent(sub_files[sub_id], b64decode(sub_files[sub_id])))
    /\ UNCHANGED << sub_files, issued >>

\* vless://u@h:443?a=1#n-1
KeyNamed == KeyPlain \o << "#", "n", "-", "1" >>

\* profile names: plain, and one no file can hold
ProfileNames == { << "A" >>, << Surrogate >> }

\* request bodies of POST /upload: no JSON, no config, a config that is no
\* VLESS key, and the VLESS keys without and with a profile name
UploadBodies ==
    { UploadBody(FALSE, << >>, FALSE, << >>),
      UploadBody(TRUE, << >>, TRUE, << "A" >>),
      UploadBody(TRUE, KeyForeign, FALSE, << >>) }
      \cup { UploadBody(TRUE, c, FALSE, << >>) : c \in { KeyPlain, KeyNamed } }
      \cup { UploadBody(TRUE, c, TRUE, n) : c \in { KeyPlain, KeyNamed }, n \in ProfileNames }

\* a sub id no uuid4 yields
UnknownSubId == << "n", "o", "s", "u", "c", "h" >>

RequestedSubIds == SubIds \cup { UnknownSubId }

(***************************************************************************)
(* The normalizer applied to a string and to its own output.               *)
(***************************************************************************)
VARIABLES
    norm          \* [pc, input, once, twice]

(***************************************************************************)
(* Requests in flight: the handlers run by the threads of the server, each *)
(* between its loads and saves of the two documents.                       *)
(***************************************************************************)
VARIABLES
    inflight      \* worker -> its place in a handler and the handler's locals

NormIdle == [ pc |-> "idle", input |-> << >>, once |-> << >>, twice |-> << >> ]

vars == << AUTH_TOKEN, keysDoc, subsDoc, last, norm, inflight, service >>

\* threads handling requests (app.run serves each request on its own thread)
NumWorkers == 2

Workers == 1..NumWorkers

IdleWorker == [ pc |-> "idle" ]

NoneInFlight == [ w \in Workers |-> IdleWorker ]

InitSystem ==
    /\ AUTH_TOKEN \in { "", Secret }
    /\ keysDoc = EmptyStore
    /\ subsDoc = EmptySubs
    /\ last = NoRequest
    /\ sub_files = NoFiles
    /\ issued = {}
    /\ answer = NoRequest

(***************************************************************************)
(* Spec: the admin workflow, the requests handled one at a time.           *)
(***************************************************************************)
Init ==
    /\ InitSystem
    /\ norm = NormIdle
    /\ inflight = NoneInFlight

SpecAssignRequests ==
    AssignRequests(1..NumUsers, { KeyPlain, KeySurrogate }, { NoEndDate })

SpecTokens == Tokens(1..NumUsers)

Upload ==
    \E token \in Headers : \E incoming \in BodiesFor(token, UploadPayloads) :
        admin_keys_upload(token, incoming) /\ UNCHANGED << norm, inflight, service >>

Assign ==
    \E token \in Headers : \E r \in BodiesFor(token, SpecAssignRequests) :
        admin_assign(token, r.user_id, r.type, r.key, r.end_date) /\ UNCHANGED << norm, inflight, service >>

Retrieve ==
    \E token \in SpecTokens :
        get_subscription(token, 0) /\ UNCHANGED << norm, inflight, service >>

Next == Upload \/ Assign \/ Retrieve

Spec == Init /\ [][Next]_vars

(***************************************************************************)
(* SpecSub: assignment and retrieval, with expiry dates, a clock and        *)
(* arbitrary tokens.                                                       *)
(***************************************************************************)
\* user ids 1 .. SubUsers hold subscriptions in this specification
SubUsers == 1

SubAssignRequests == AssignRequests(1..SubUsers, RawKeys, EndDates)

SubTokens == Tokens(1..(SubUsers + 1)) \cup MalformedTokens

SubAssign ==
    \E token \in Headers : \E r \in BodiesFor(token, SubAssignRequests) :
        admin_assign(token, r.user_id, r.type, r.key, r.end_date) /\ UNCHANGED << norm, inflight, service >>

SubRetrieve ==
    \E token \in SubTokens, now \in 0..MaxTime :
        get_subscription(token, now) /\ UNCHANGED << norm, inflight, service >>

NextSub == SubAssign \/ SubRetrieve

SpecSub == Init /\ [][NextSub]_vars

(***************************************************************************)
(* SpecNorm: normalize a well-formed key, then normalize the result.       *)
(***************************************************************************)
InitNorm ==
    /\ InitSystem
    /\ \E s \in WellFormed : norm = [ NormIdle EXCEPT !.pc = "input", !.input = s ]
    /\ inflight = NoneInFlight

NormalizeOnce ==
    /\ norm.pc = "input"
    /\ norm' = [ norm EXCEPT !.pc = "once", !.once = normalize_vless_for_v2raytun(norm.input) ]
    /\ UNCHANGED << AUTH_TOKEN, keysDoc, subsDoc, last, inflight, service >>

NormalizeTwice ==
    /\ norm.pc = "once"
    /\ norm' = [ norm EXCEPT !.pc = "twice", !.twice = normalize_vless_for_v2raytun(norm.once) ]
    /\ UNCHANGED << AUTH_TOKEN, keysDoc, subsDoc, last, inflight, service >>

NextNorm == NormalizeOnce \/ NormalizeTwice

SpecNorm == InitNorm /\ [][NextNorm]_vars

(***************************************************************************)
(* SpecConc: the handlers step by step.  A step is what a handler does up   *)
(* to and including one load or one save of a document, so the load/save   *)
(* cycles of requests on different threads interleave.  A load and a save  *)
(* of a document are each taken as one step.                               *)
(***************************************************************************)
\* upload bodies: lists of the one key, for the trial tier
ConcPayloads ==
    { [ trial |-> l, month |-> << >>, year |-> << >> ] : l \in KeyLists({ KeyPlain }, MaxUpload) }

\* assign bodies: the one key for each user, and one body answered 400
ConcAssignRequests ==
    { AssignRequest(u, TRIAL, KeyPlain, NoEndDate) : u \in 0..NumUsers }

ConcTokens == { TokenOf(1, TRIAL) }

\* admin_keys_upload up to "store = load_keys_store()"
UploadLoad(w, token, incoming) ==
    /\ inflight[w].pc = "idle"
    /\ IF ~require_auth(token)
       THEN /\ last' = Unauthorized("upload", token)
            /\ UNCHANGED inflight
       ELSE /\ inflight' = [ inflight EXCEPT ![w] =
                               [ pc |-> "upload_loaded", token |-> token, incoming |-> incoming,
                                 store |-> load_keys_store(keysDoc) ] ]
            /\ UNCHANGED last
    /\ UNCHANGED << AUTH_TOKEN, keysDoc, subsDoc, norm, service >>

\* ... the loop over the tiers, save_keys_store(store) and the response
UploadSave(w) ==
    /\ inflight[w].pc = "upload_loaded"
    /\ UploadLoaded(inflight[w].token, inflight[w].incoming, inflight[w].store,
                    UploadTiers(inflight[w].store, inflight[w].incoming))
    /\ inflight' = [ inflight EXCEPT ![w] = IdleWorker ]
    /\ UNCHANGED << AUTH_TOKEN, subsDoc, norm, service >>

\* admin_assign up to "subs = load_subscriptions()"
AssignLoadSubs(w, token, r) ==
    /\ inflight[w].pc = "idle"
    /\ IF ~require_auth(token)
       THEN /\ last' = Unauthorized("assign", token)
            /\ UNCHANGED inflight
       ELSE IF AssignInvalid(r.user_id, r.type, r.key)
       THEN /\ last' = AssignResponse(token, 400, r.user_id, r.type, r.key, r.end_date)
            /\ UNCHANGED inflight
       ELSE /\ inflight' = [ inflight EXCEPT ![w] =
                               [ pc |-> "assign_loaded_subs", token |-> token, req |-> r,
                                 key |-> normalize_vless_for_v2raytun(r.key),
                                 subs |-> load_subscriptions(subsDoc) ] ]
            /\ UNCHANGED last
    /\ UNCHANGED << AUTH_TOKEN, keysDoc, subsDoc, norm, service >>

\* ... "subs[str(user_id)] = {...}; save_subscriptions(subs)"
AssignSaveSubs(w) ==
    /\ inflight[w].pc = "assign_loaded_subs"
    /\ subsDoc' = save_subscriptions(
                     AssignSubs(inflight[w].subs, inflight[w].req.user_id,
                                inflight[w].req.type, inflight[w].key,
                                inflight[w].req.end_date))
    /\ inflight' = [ inflight EXCEPT ![w] =
                       [ pc |-> "assign_saved_subs", token |-> inflight[w].token,
                         req |-> inflight[w].req, key |-> inflight[w].key ] ]
    /\ UNCHANGED << AUTH_TOKEN, keysDoc, last, norm, service >>

\* ... "store = load_keys_store()"
AssignLoadKeys(w) ==
    /\ inflight[w].pc = "assign_saved_subs"
    /\ inflight' = [ inflight EXCEPT ![w] =
                       [ pc |-> "assign_loaded_keys", token |-> inflight[w].token,
                         req |-> inflight[w].req, key |-> inflight[w].key,
                         store |-> load_keys_store(keysDoc) ] ]
    /\ UNCHANGED << AUTH_TOKEN, keysDoc, subsDoc, last, norm, service >>

\* ... the key marked used, save_keys_store(store) and the response
AssignSaveKeys(w) ==
    /\ inflight[w].pc = "assign_loaded_keys"
    /\ keysDoc' = save_keys_store(AssignStore(inflight[w].store, inflight[w].key))
    /\ last' = AssignResponse(inflight[w].token, 200, inflight[w].req.user_id,
                              inflight[w].req.type, inflight[w].req.key,
                              inflight[w].req.end_date)
    /\ inflight' = [ inflight EXCEPT ![w] = IdleWorker ]
    /\ UNCHANGED << AUTH_TOKEN, subsDoc, norm, service >>

ConcUpload ==
    \E w \in Workers, token \in Headers : \E incoming \in BodiesFor(token, ConcPayloads) :
        UploadLoad(w, token, incoming)

ConcUploadSave == \E w \in Workers : UploadSave(w)

ConcAssign ==
    \E w \in Workers, token \in Headers : \E r \in BodiesFor(token, ConcAssignRequests) :
        AssignLoadSubs(w, token, r)

ConcAssignSaveSubs == \E w \in Workers : AssignSaveSubs(w)

ConcAssignLoadKeys == \E w \in Workers : AssignLoadKeys(w)

ConcAssignSaveKeys == \E w \in Workers : AssignSaveKeys(w)

\* get_subscription loads the subscriptions once and saves nothing
ConcRetrieve ==
    \E token \in ConcTokens :
        get_subscription(token, 0) /\ UNCHANGED << norm, inflight, service >>

NextConc ==
    \/ ConcUpload \/ ConcUploadSave
    \/ ConcAssign \/ ConcAssignSaveSubs \/ ConcAssignLoadKeys \/ ConcAssignSaveKeys
    \/ ConcRetrieve

SpecConc == Init /\ [][NextConc]_vars

(***************************************************************************)
(* SpecUp: the upload service, its requests handled one at a time.         *)
(***************************************************************************)
UploadConfig ==
    /\ Cardinality(issued) < MaxUploads
    /\ \E data \in UploadBodies, sub_id \in SubIds : upload_config(data, sub_id)
    /\ UNCHANGED << AUTH_TOKEN, keysDoc, subsDoc, last, norm, inflight >>

GetSub ==
    /\ \E sub_id \in RequestedSubIds : v2raytun_get_subscription(sub_id)
    /\ UNCHANGED << AUTH_TOKEN, keysDoc, subsDoc, last, norm, inflight >>

GetRaw ==
    /\ \E sub_id \in RequestedSubIds : get_subscription_raw(sub_id)
    /\ UNCHANGED << AUTH_TOKEN, keysDoc, subsDoc, last, norm, inflight >>

NextUp == UploadConfig \/ GetSub \/ GetRaw

SpecUp == Init /\ [][NextUp]_vars

(***************************************************************************)
(* Properties.                                                             *)
(***************************************************************************)
AdminRequest(r) == r.op \in { "upload", "assign" }

\* k has been handed out: it is in used and in no available tier
Retired(store, k) == k \in store.used /\ \A t \in Tiers : k \notin store[t]

\* C1: each normalized key is in at most one of the sets trial, month, year
\* and used (the four sets are pairwise disjoint, tier against tier too).
C1_KeySetsDisjoint ==
    /\ \A t \in Tiers : keysDoc[t] \cap keysDoc.used = {}
    /\ \A t1, t2 \in Tiers : t1 # t2 => keysDoc[t1] \cap keysDoc[t2] = {}

\* C2: no key is the assigned key of the subscription records of two
\* different user ids.
C2_SingleAssignment ==
    \A u1, u2 \in DOMAIN subsDoc : u1 # u2 => subsDoc[u1].key # subsDoc[u2].key

\* C3: the step of a successful assign of key k leaves the normalized k in
\* used and in no tier, and no later step of an upload_keys or assign request
\* takes a key out of that condition (an upload_keys request containing k
\* does not put it back into a tier).
C3_AssignedKeyStaysUsed ==
    [][ /\ (last'.op = "assign" /\ last'.status = 200)
             => Retired(keysDoc', normalize_vless_for_v2raytun(last'.raw_key))
        /\ \A k \in keysDoc.used : Retired(keysDoc, k) => Retired(keysDoc', k) ]_vars

\* C4: an authorized upload_keys request leaves every tier a superset of
\* what it was and used as it was, and every key it adds to a tier begins
\* with the VLESS prefix, is the normalized form of a key of the request's
\* list for that tier, and was not in used before the request.
C4_UploadOnlyAdds ==
    [][ (last'.op = "upload" /\ last'.status = 200) =>
          /\ keysDoc'.used = keysDoc.used
          /\ \A t \in Tiers :
               /\ keysDoc[t] \subseteq keysDoc'[t]
               /\ \A nk \in keysDoc'[t] \ keysDoc[t] :
                    /\ StartsWith(nk, VLESS_PREFIX)
                    /\ \E i \in DOMAIN last'.incoming[t] :
                         nk = normalize_vless_for_v2raytun(last'.incoming[t][i])
                    /\ nk \notin keysDoc.used ]_vars

\* C5: retrieval with the token of (u, t), for a record of u that holds type
\* t, a VLESS key and an end_date that is absent or in the future, answers
\* 200 with the key stored in the record as its body.
C5_RetrievalReturnsStoredKey ==
    \A u \in 1..(SubUsers + 1), t \in PlanTypes :
        ( /\ last.op = "get" /\ last.token = TokenOf(u, t)
          /\ Str(u) \in DOMAIN subsDoc
          /\ subsDoc[Str(u)].type = t
          /\ StartsWith(subsDoc[Str(u)].key, VLESS_PREFIX)
          /\ \/ subsDoc[Str(u)].end_date.kind = "empty"
             \/ /\ subsDoc[Str(u)].end_date.kind \in { "naive", "Z", "offset" }
                /\ subsDoc[Str(u)].end_date.wall - subsDoc[Str(u)].end_date.off > last.now )
        => (last.status = 200 /\ last.body = subsDoc[Str(u)].key)

\* C6: upload_keys and assign answer 401 whenever the X-Auth-Token header
\* differs from the configured secret and whenever the secret is empty, and
\* a request answered 401 leaves both documents as they were.
C6_UnauthorizedRejected ==
    [][ AdminRequest(last') =>
          /\ (AUTH_TOKEN = "" \/ last'.hdr # AUTH_TOKEN) => last'.status = 401
          /\ last'.status = 401 => (keysDoc' = keysDoc /\ subsDoc' = subsDoc) ]_vars

\* C6 witness: a request with a wrong header has been answered 401 while
\* both documents hold data.
C6_Witness ==
    /\ AdminRequest(last) /\ last.status = 401 /\ last.hdr # AUTH_TOKEN
    /\ keysDoc # EmptyStore
    /\ subsDoc # EmptySubs

\* the decoded text of a token, or "no text" for a token that is no base64
\* of UTF-8 text
TokenIsText(token) == b64decode(token).ok /\ Utf8Decode(b64decode(token).bytes).ok

Underscores(token) ==
    Cardinality({ i \in DOMAIN b64decode(token).bytes : b64decode(token).bytes[i] = 95 })

\* C7: retrieval answers 400 for every token that is no base64 of UTF-8
\* text and for every token whose text has no "_" or more than one.
C7_MalformedTokenIs400 ==
    (last.op = "get" /\ (~TokenIsText(last.token) \/ Underscores(last.token) # 1))
        => last.status = 400

\* C8: for a record that is otherwise valid, retrieval answers 403 exactly
\* when end_date is an ISO-8601 timestamp and the clock is past the instant
\* it denotes (its wall-clock reading less its UTC offset), and 200
\* otherwise, also when end_date is absent or no timestamp.
C8_ExpiryByInstant ==
    \A u \in 1..(SubUsers + 1), t \in PlanTypes :
        ( /\ last.op = "get" /\ last.token = TokenOf(u, t)
          /\ Str(u) \in DOMAIN subsDoc
          /\ subsDoc[Str(u)].active
          /\ subsDoc[Str(u)].type = t
          /\ StartsWith(subsDoc[Str(u)].key, VLESS_PREFIX) )
        => LET e == subsDoc[Str(u)].end_date
           IN  IF e.kind \in { "naive", "Z", "offset" } /\ last.now > e.wall - e.off
               THEN last.status = 403
               ELSE last.status = 200

\* C10: on a well-formed VLESS string the normalizer is idempotent: applied
\* to its own output it returns that output.
C10_NormalizeIdempotent ==
    norm.pc = "twice" => norm.twice = norm.once

\* C9: in every execution, interleaved ones included, a user id that has a
\* record in the subscription document has one after every step.
C9_RecordNeverDeleted ==
    [][ DOMAIN subsDoc \subseteq DOMAIN subsDoc' ]_vars

\* the uploads that were answered with this sub id
IssuedAs(sub_id) == { u \in issued : u.sub_id = sub_id }

\* C11: GET /sub/<sub_id> and GET /sub/<sub_id>/raw answer 404 for a sub id
\* no upload returned; for a sub id an upload returned, whatever uploads came
\* later, they answer 200 with the base64 text of that upload's config (its
\* profile name appended after "#" when the config holds no "#") and with
\* that string itself.
C11_UploadRetrievable ==
    answer.op \in { "sub", "raw" } =>
        IF IssuedAs(answer.sub_id) = {}
        THEN answer.status = 404
        ELSE \A u \in IssuedAs(answer.sub_id) :
               /\ answer.status = 200
               /\ B64OfText(WithName(u.config, u.profile_name)).ok =>
                    /\ answer.op = "sub" =>
                         answer.body = B64OfText(WithName(u.config, u.profile_name)).text
                    /\ answer.op = "raw" =>
                         answer.body = WithName(u.config, u.profile_name)

\* some subscription record holds k
HeldKey(subs, k) == \E u \in DOMAIN subs : subs[u].key = k

\* the step in which worker w ends an upload request with its save
UploadSaves(w) == inflight[w].pc = "upload_loaded" /\ inflight'[w].pc = "idle"

\* k was in tier t and not in used when the upload of worker w loaded the
\* key pool, and an assign has since saved the pool with k moved to used and
\* a record that holds k
AssignedSinceLoad(w, t, k) ==
    /\ k \in inflight[w].store[t] /\ k \notin inflight[w].store.used
    /\ k \notin keysDoc[t] /\ k \in keysDoc.used
    /\ HeldKey(subsDoc, k)

\* C12: an upload request whose load of the key pool came before the save of
\* an assign of k, and whose own save (of keys a file can hold) comes after
\* it, reports success and leaves k in the tier it was in and out of used,
\* while the subscription record still holds k: the key pool is written as
\* a whole, the later writer wins.
C12_UploadSaveLosesAssign ==
    [][ \A w \in Workers : \A t \in Tiers : \A k \in keysDoc.used :
          ( /\ UploadSaves(w)
            /\ AssignedSinceLoad(w, t, k)
            /\ StoreWritable(UploadStore(inflight[w].store,
                                         UploadTiers(inflight[w].store, inflight[w].incoming))) )
          => /\ last'.op = "upload" /\ last'.status = 200
             /\ k \in keysDoc'[t] /\ k \notin keysDoc'.used
             /\ HeldKey(subsDoc', k) ]_vars

\* C12 witness: every request has been answered, the last one an upload with
\* success that added nothing to tier t, and a key that a subscription
\* record holds is in t (where the upload found it) and not in used.
C12_Witness ==
    /\ inflight = NoneInFlight
    /\ last.op = "upload" /\ last.status = 200
    /\ \E t \in Tiers :
         /\ last.added[t] = 0
         /\ \E k \in keysDoc[t] : k \notin keysDoc.used /\ HeldKey(subsDoc, k)

=============================================================================
